---- MODULE Spec2Model ----
(***************************************************************************)
(* Model of src/main.py: the class-schedule pipeline                       *)
(*   Config.from_yaml -> get_page -> parse -> relevant -> print(json).     *)
(*                                                                         *)
(* A Python str is a sequence of one-character strings, so that lower(),   *)
(* strip(), split("-"), the `in` substring test and strptime are computed  *)
(* and not assumed.  An Optional value is a sequence of length 0 (None)    *)
(* or 1.  A dict is a function whose DOMAIN is its set of keys.            *)
(***************************************************************************)
EXTENDS Integers, Sequences, FiniteSets, TLC

(***************************************************************************)
(* Python str operations                                                   *)
(***************************************************************************)
None == <<>>

Some(v) == <<v>>

UpperCase == <<"A","B","C","D","E","F","G","H","I","J","K","L","M",
               "N","O","P","Q","R","S","T","U","V","W","X","Y","Z">>

LowerCase == <<"a","b","c","d","e","f","g","h","i","j","k","l","m",
               "n","o","p","q","r","s","t","u","v","w","x","y","z">>

Digits == <<"0","1","2","3","4","5","6","7","8","9">>

Whitespace == {" ", "\n", "\t"}

\* str.lower() on one character
LowerChar(c) ==
    IF \E k \in 1..Len(UpperCase) : UpperCase[k] = c
    THEN LowerCase[CHOOSE k \in 1..Len(UpperCase) : UpperCase[k] = c]
    ELSE c

\* str.lower()
lower(s) == [k \in 1..Len(s) |-> LowerChar(s[k])]

\* str.strip(): drops leading and trailing whitespace
strip(s) ==
    LET keep == {k \in 1..Len(s) : s[k] \notin Whitespace}
    IN  IF keep = {} THEN <<>>
        ELSE LET lo == CHOOSE k \in keep : \A j \in keep : k <= j
                 hi == CHOOSE k \in keep : \A j \in keep : k >= j
             IN  SubSeq(s, lo, hi)

\* `sub in s` for two str
contains(s, sub) ==
    \E k \in 0..(Len(s) - Len(sub)) : SubSeq(s, k + 1, k + Len(sub)) = sub

\* `x in xs` for a list xs
member(x, xs) == \E k \in 1..Len(xs) : xs[k] = x

\* str.split(sep) for a one-character separator: the list of the pieces
RECURSIVE split(_, _)
split(s, sep) ==
    IF \A k \in 1..Len(s) : s[k] /= sep
    THEN <<s>>
    ELSE LET p == CHOOSE k \in 1..Len(s) :
                      s[k] = sep /\ \A j \in 1..(k - 1) : s[j] /= sep
         IN  <<SubSeq(s, 1, p - 1)>> \o split(SubSeq(s, p + 1, Len(s)), sep)

\* "".join(xs)
RECURSIVE join(_)
join(xs) == IF xs = <<>> THEN <<>> ELSE Head(xs) \o join(Tail(xs))

\* dict.get(key, default)
get(d, key, default) == IF key \in DOMAIN d THEN d[key] ELSE default

IsDigit(c) == \E k \in 1..Len(Digits) : Digits[k] = c

DigitValue(c) == (CHOOSE k \in 1..Len(Digits) : Digits[k] = c) - 1

(***************************************************************************)
(* Exceptions: a call either returns a value or raises.                    *)
(***************************************************************************)
Return(v) == [raised |-> FALSE, value |-> v]

Raise(e) == [raised |-> TRUE, error |-> e]

(***************************************************************************)
(* datetime.strptime for formats built from %I %H %M %p and literal        *)
(* characters (the directives of "%I:%M%p" and of a 24-hour override).     *)
(* As in _strptime, the format is a regular expression tried from the      *)
(* left with each directive's alternatives in order, the match need not    *)
(* reach the end of the text, and text left over is an error.              *)
(***************************************************************************)
\* the two-character alternatives of a directive's pattern
TwoDigit(d, a, b) ==
    CASE d = "I" -> \/ a = "1" /\ b \in {"0", "1", "2"}
                    \/ a = "0" /\ IsDigit(b) /\ b /= "0"
      [] d = "H" -> \/ a = "2" /\ b \in {"0", "1", "2", "3"}
                    \/ a \in {"0", "1"} /\ IsDigit(b)
      [] d = "M" -> a \in {"0", "1", "2", "3", "4", "5"} /\ IsDigit(b)
      [] OTHER   -> FALSE

\* the one-character alternative of a directive's pattern
OneDigit(d, a) ==
    CASE d = "I" -> IsDigit(a) /\ a /= "0"
      [] d = "H" -> IsDigit(a)
      [] d = "M" -> IsDigit(a)
      [] OTHER   -> FALSE

\* re.match of the format's pattern: None, or the groups found and the
\* text after the match
RECURSIVE Match(_, _, _)
Match(fmt, s, found) ==
    IF fmt = <<>> THEN Some([groups |-> found, rest |-> s])
    ELSE IF fmt[1] = "%" /\ Len(fmt) >= 2
    THEN LET d    == fmt[2]
             f    == SubSeq(fmt, 3, Len(fmt))
             two  == IF Len(s) >= 2 /\ TwoDigit(d, s[1], s[2])
                     THEN Match(f, SubSeq(s, 3, Len(s)),
                                (d :> 10 * DigitValue(s[1]) + DigitValue(s[2])) @@ found)
                     ELSE None
             one  == IF Len(s) >= 1 /\ OneDigit(d, s[1])
                     THEN Match(f, Tail(s), (d :> DigitValue(s[1])) @@ found)
                     ELSE None
             ampm == IF Len(s) >= 2 THEN lower(SubSeq(s, 1, 2)) ELSE <<>>
         IN  IF d = "p"
             THEN IF ampm \in {<<"a", "m">>, <<"p", "m">>}
                  THEN Match(f, SubSeq(s, 3, Len(s)),
                             ("p" :> (IF ampm = <<"p", "m">> THEN 1 ELSE 0)) @@ found)
                  ELSE None
             ELSE IF two /= None THEN two ELSE one
    ELSE IF Len(s) >= 1 /\ LowerChar(s[1]) = LowerChar(fmt[1])
         THEN Match(Tail(fmt), Tail(s), found)
         ELSE None

NoGroups == [d \in {} |-> 0]

\* datetime.strptime(s, fmt): a datetime on 1900-01-01, or ValueError
strptime(s, fmt) ==
    LET m == Match(fmt, s, NoGroups)
    IN  IF m = None \/ m[1].rest /= <<>> THEN Raise("ValueError")
        ELSE LET g    == m[1].groups
                 pm   == get(g, "p", 0) = 1
                 hour == IF "H" \in DOMAIN g THEN g["H"]
                         ELSE IF "I" \in DOMAIN g
                         THEN IF pm
                              THEN (IF g["I"] /= 12 THEN g["I"] + 12 ELSE 12)
                              ELSE (IF g["I"] = 12 THEN 0 ELSE g["I"])
                         ELSE 0
             IN  Return([year |-> 1900, month |-> 1, day |-> 1,
                         hour |-> hour, minute |-> get(g, "M", 0)])

\* datetime.time(): the time of day, the date dropped
time(dt) == [hour |-> dt.hour, minute |-> dt.minute]

\* a <= b for two datetime.time
TimeLE(a, b) == a.hour < b.hour \/ (a.hour = b.hour /\ a.minute <= b.minute)

\* a >= b for two datetime.time
TimeGE(a, b) == TimeLE(b, a)

\* "%I:%M%p"
DefaultTimeFormat == <<"%", "I", ":", "%", "M", "%", "p">>

\* parse_time_range(time_range_str): (start_time, end_time), or ValueError
parse_time_range(time_range_str) ==
    LET parts == split(time_range_str, "-")
    IN  IF Len(parts) /= 2 THEN Raise("ValueError")
        ELSE LET start_time == strptime(strip(parts[1]), DefaultTimeFormat)
                 end_time   == strptime(strip(parts[2]), DefaultTimeFormat)
             IN  IF start_time.raised THEN start_time
                 ELSE IF end_time.raised THEN end_time
                 ELSE Return(<<start_time.value, end_time.value>>)

(***************************************************************************)
(* The document: BeautifulSoup's tree, as far as parse and                 *)
(* extract_course_data look at it.  A <tr> has its class attribute, its    *)
(* first <th> (None, or the text nodes under it) and its <td> cells by     *)
(* data-title (each the text nodes under it).                              *)
(***************************************************************************)
Attributes == <<"Location", "Instructor", "Session", "Gender", "Age", "Open",
                "Cat2", "Cat3", "Days", "Times", "Fee">>

AttributeSet == {Attributes[k] : k \in 1..Len(Attributes)}

\* Tag.stripped_strings: every text node stripped, the empty ones skipped
RECURSIVE stripped_strings(_)
stripped_strings(nodes) ==
    IF nodes = <<>> THEN <<>>
    ELSE (IF strip(Head(nodes)) = <<>> THEN <<>> ELSE <<strip(Head(nodes))>>)
         \o stripped_strings(Tail(nodes))

\* Tag.get_text(strip=True)
get_text(nodes) == join(stripped_strings(nodes))

\* find_and_get_text with an absent cell read as the empty text
find_and_get_text_or_empty(row, attribute) ==
    IF attribute \notin DOMAIN row.td
    THEN Return(<<>>)
    ELSE Return(get_text(row.td[attribute]))

\* find_and_get_text(row, attribute)
find_and_get_text(row, attribute) ==
    IF attribute \notin DOMAIN row.td
    THEN Raise("AssertionError")
    ELSE Return(get_text(row.td[attribute]))

\* dataclass Course, from the twelve texts and the two parsed times
Course(class_name, text, times) ==
    [class_name |-> class_name,
     location   |-> text["Location"],
     instructor |-> text["Instructor"],
     session    |-> text["Session"],
     gender     |-> text["Gender"],
     age        |-> text["Age"],
     open       |-> text["Open"],
     cat2       |-> text["Cat2"],
     cat3       |-> text["Cat3"],
     days       |-> text["Days"],
     times      |-> text["Times"],
     fee        |-> text["Fee"],
     start_time |-> times[1],
     end_time   |-> times[2]]

\* class_name_of with the second segment taken whenever there is one
class_name_of_second_if_any(class_name_parts) ==
    LET index == IF Len(class_name_parts) >= 2 THEN 2 ELSE 1
    IN  IF index \in 1..Len(class_name_parts)
        THEN Return(class_name_parts[index])
        ELSE Raise("IndexError")

\* the class name of a header's text segments
\* (Python's indices 1 and 0 are 2 and 1 here; an index past the end of
\* the list is IndexError)
class_name_of(class_name_parts) ==
    LET index == IF Len(class_name_parts) = 2 THEN 2 ELSE 1
    IN  IF index \in 1..Len(class_name_parts)
        THEN Return(class_name_parts[index])
        ELSE Raise("IndexError")

\* extract_course_data(row): a Course, or the first exception on the way
extract_course_data(row) ==
    IF row.th = None THEN Raise("AssertionError")
    ELSE
    LET stripped == stripped_strings(row.th[1])
        class_name_parts == [k \in 1..Len(stripped) |-> strip(stripped[k])]
        class_name == class_name_of(class_name_parts)
    IN  IF class_name.raised THEN class_name
        ELSE
        LET found == [a \in AttributeSet |-> find_and_get_text(row, a)]
        IN  IF \E a \in AttributeSet : found[a].raised
            THEN found[Attributes[CHOOSE k \in 1..Len(Attributes) :
                          /\ found[Attributes[k]].raised
                          /\ \A j \in 1..(k - 1) : ~found[Attributes[j]].raised]]
            ELSE
            LET text  == [a \in AttributeSet |-> found[a].value]
                times == parse_time_range(text["Times"])
            IN  IF times.raised THEN times
                ELSE Return(Course(class_name.value, text, times.value))

(***************************************************************************)
(* Config                                                                  *)
(***************************************************************************)
EmptyDict == [k \in {} |-> None]

\* [s.lower() for s in xs]
lower_all(xs) == [k \in 1..Len(xs) |-> lower(xs[k])]

\* get_or_None with the empty string for an absent key
get_or_empty(d, key) == IF key \in DOMAIN d THEN Some(d[key]) ELSE Some(<<>>)

\* dict.get(key): None when the key is absent
get_or_None(d, key) == IF key \in DOMAIN d THEN Some(d[key]) ELSE None

\* schedule_time with midnight for an absent key
schedule_time_or_midnight(schedule, key, tfmt) ==
    IF key \notin DOMAIN schedule
    THEN strptime(<<"1", "2", ":", "0", "0", "a", "m">>, DefaultTimeFormat)
    ELSE strptime(schedule[key], tfmt)

\* datetime.strptime(schedule[key], tfmt): KeyError when the key is absent
schedule_time(schedule, key, tfmt) ==
    IF key \notin DOMAIN schedule
    THEN Raise("KeyError")
    ELSE strptime(schedule[key], tfmt)

\* Config.from_yaml, from the value yaml.safe_load returned
from_yaml(raw) ==
    LET class_rules == get(raw, "class_rules", EmptyDict)
        schedule    == get(raw, "schedule", EmptyDict)
        tfmt        == get(schedule, "time_format", DefaultTimeFormat)
        start_after == schedule_time(schedule, "start_after", tfmt)
        end_before  == schedule_time(schedule, "end_before", tfmt)
    IN  IF start_after.raised THEN start_after
        ELSE IF end_before.raised THEN end_before
        ELSE Return(
            [name_includes   |-> lower_all(get(class_rules, "name_includes", <<>>)),
             location_equals |-> get_or_None(class_rules, "location_equals"),
             instructors     |-> lower_all(get(raw, "instructors", <<>>)),
             start_after     |-> time(start_after.value),
             end_before      |-> time(end_before.value),
             exclude_days    |-> get(schedule, "exclude_days", <<>>)])

(***************************************************************************)
(* relevant(row, cfg) and its five criteria                                *)
(***************************************************************************)
correct_class(row, cfg) ==
    \A k \in 1..Len(cfg.name_includes) :
        contains(lower(row.class_name), cfg.name_includes[k])

good_location(row, cfg) ==
    IF cfg.location_equals /= None
    THEN row.location = cfg.location_equals[1]
    ELSE TRUE

good_instructor(row, cfg) ==
    \E k \in 1..Len(cfg.instructors) :
        contains(lower(row.instructor), cfg.instructors[k])

\* good_time with both bounds exclusive
good_time_exclusive(row, cfg) ==
    /\ ~TimeLE(time(row.start_time), cfg.start_after)
    /\ ~TimeGE(time(row.end_time), cfg.end_before)

good_time(row, cfg) ==
    /\ TimeGE(time(row.start_time), cfg.start_after)
    /\ TimeLE(time(row.end_time), cfg.end_before)

\* good_day with an excluded string looked for inside the days string
good_day_by_substring(row, cfg) ==
    ~\E k \in 1..Len(cfg.exclude_days) : contains(row.days, cfg.exclude_days[k])

good_day(row, cfg) == ~member(row.days, cfg.exclude_days)

relevant(row, cfg) ==
    /\ correct_class(row, cfg)
    /\ good_location(row, cfg)
    /\ good_time(row, cfg)
    /\ good_day(row, cfg)
    /\ good_instructor(row, cfg)

\* course_dict with the two times left in
course_dict_with_times(course) == [k \in DOMAIN course |-> course[k]]

\* dataclasses.asdict(course) with start_time and end_time deleted: the
\* object json.dumps prints
course_dict(course) ==
    [k \in DOMAIN course \ {"start_time", "end_time"} |-> course[k]]

(***************************************************************************)
(* Inputs: the texts, rows, documents and configuration files of the runs  *)
(* explored.                                                               *)
(***************************************************************************)
s_NEW == <<"N", "E", "W">>

s_Toddler_Dance == <<"T", "o", "d", "d", "l", "e", "r", " ", "D", "a", "n", "c", "e">>

s_Ballet == <<"B", "a", "l", "l", "e", "t">>

s_Full == <<"F", "u", "l", "l">>

s_Toddler == <<"T", "o", "d", "d", "l", "e", "r">>

s_SB == <<"S", "B">>

s_NB == <<"N", "B">>

s_Jane == <<"J", "a", "n", "e">>

s_Bob == <<"B", "o", "b">>

s_Tue == <<"T", "u", "e">>

s_MWF == <<"M", "W", "F">>

s_M == <<"M">>

s_W == <<"W">>

s_Fall == <<"F", "a", "l", "l">>

s_Coed == <<"C", "o", "e", "d">>

s_2_3 == <<"2", "-", "3">>

s_4 == <<"4">>

s_Dance == <<"D", "a", "n", "c", "e">>

s_Tots == <<"T", "o", "t", "s">>

s_25 == <<"$", "2", "5">>

s_4_00pm_4_45pm == <<"4", ":", "0", "0", "p", "m", " ", "-", " ", "4", ":", "4", "5", "p", "m">>

s_3_45pm_7_00pm == <<"3", ":", "4", "5", "p", "m", " ", "-", " ", "7", ":", "0", "0", "p", "m">>

s_3_44pm_4_45pm == <<"3", ":", "4", "4", "p", "m", " ", "-", " ", "4", ":", "4", "5", "p", "m">>

s_4_00pm_7_01pm == <<"4", ":", "0", "0", "p", "m", "-", "7", ":", "0", "1", "P", "M">>

s_6_00pm_4_00pm == <<"6", ":", "0", "0", "p", "m", " ", "-", " ", "4", ":", "0", "0", "p", "m">>

s_3_15pm == <<"3", ":", "1", "5", "p", "m">>

s_3_15_4_00pm == <<"3", ":", "1", "5", "-", "4", ":", "0", "0", "p", "m">>

s_3_45pm == <<"3", ":", "4", "5", "p", "m">>

s_7_00pm == <<"7", ":", "0", "0", "p", "m">>

s_15_45 == <<"1", "5", ":", "4", "5">>

s_19_00 == <<"1", "9", ":", "0", "0">>

s_H_M == <<"%", "H", ":", "%", "M">>

OpeningRowClass == "qweb-reg-openings-row"

\* the eleven cells of the spec's example row (Toddler Dance, SB, Jane, Tue,
\* 4:00pm - 4:45pm), with the white space the page puts around the texts
BaseCells ==
    [Location   |-> <<<<" ">> \o s_SB \o <<" ">>>>,
     Instructor |-> <<s_Jane>>,
     Session    |-> <<s_Fall>>,
     Gender     |-> <<s_Coed>>,
     Age        |-> <<s_2_3>>,
     Open       |-> <<s_4>>,
     Cat2       |-> <<s_Dance>>,
     Cat3       |-> <<s_Tots>>,
     Days       |-> <<<<"\n">>, s_Tue>>,
     Times      |-> <<s_4_00pm_4_45pm>>,
     Fee        |-> <<s_25>>]

\* a header of two segments, and of one, none and three
Header2 == Some(<<s_NEW, <<" ">> \o s_Toddler_Dance \o <<" ">>>>)

Header1 == Some(<<<<" ", "\n">>, s_Toddler_Dance>>)

Header0 == Some(<<<<" ">>>>)

Header3 == Some(<<s_NEW, s_Toddler_Dance, s_Full>>)

\* an opening row with the given header and cells
Tr(th, td) == [class |-> OpeningRowClass, th |-> th, td |-> td]

\* the base cells with one cell's text replaced
With(attribute, text) == (attribute :> <<text>>) @@ BaseCells

\* the base cells with one cell absent
Without(attribute) == [a \in (DOMAIN BaseCells) \ {attribute} |-> BaseCells[a]]

RowA == Tr(Header2, BaseCells)

RowB == Tr(Header2, With("Location", s_NB))

RowEdge == Tr(Header1, With("Times", s_3_45pm_7_00pm))

RowEarly == Tr(Header1, With("Times", s_3_44pm_4_45pm))

RowLate == Tr(Header1, With("Times", s_4_00pm_7_01pm))

RowBackwards == Tr(Header1, With("Times", s_6_00pm_4_00pm))

RowNoSeparator == Tr(Header1, With("Times", s_3_15pm))

RowNoMeridiem == Tr(Header1, With("Times", s_3_15_4_00pm))

RowMWF == Tr(Header2, With("Days", s_MWF))

RowBob == Tr(Header3, With("Instructor", s_Bob))

RowBallet == Tr(Some(<<s_Ballet>>), BaseCells)

RowEmptyHeader == Tr(Header0, BaseCells)

RowNoHeader == Tr(None, BaseCells)

\* a <tr> that is not an opening row: no class, no cells
RowHeading == [class |-> "", th |-> Some(<<s_Toddler_Dance>>), td |-> EmptyDict]

\* the rows that documents are built from freely: a relevant row, a row at
\* another location, a second relevant row, a row whose Times do not parse,
\* and a <tr> that is not an opening row
CoreRows == {RowA, RowB, RowEdge, RowNoSeparator, RowHeading}

\* every row: the core, the other variations, and a row without each cell
Rows ==
    CoreRows
    \cup {RowEarly, RowLate, RowBackwards, RowNoMeridiem, RowMWF, RowBob,
          RowBallet, RowEmptyHeader, RowNoHeader}
    \cup {Tr(Header2, Without(Attributes[k])) : k \in 1..Len(Attributes)}

\* the most <tr> elements of a document
MaxRows == 3

\* the lists of at most n elements of S
RECURSIVE SeqsUpTo(_, _)
SeqsUpTo(S, n) ==
    IF n = 0 THEN {<<>>}
    ELSE LET shorter == SeqsUpTo(S, n - 1)
         IN  shorter \cup {Append(q, x) : q \in shorter, x \in S}

\* the bodies explored: every list of at most MaxRows core rows, and every
\* row alone, after a relevant row and before one
Bodies ==
    SeqsUpTo(CoreRows, MaxRows)
    \cup {<<r>> : r \in Rows}
    \cup {<<RowA, r>> : r \in Rows}
    \cup {<<r, RowA>> : r \in Rows}

\* a response: its HTTP status and its text, a document with or without
\* the table "table-1", with or without a <tbody>, and the <tr> in it
Response(status, table) == [status |-> status, text |-> [table |-> table]]

Table(tbody) == [tbody |-> tbody]

Pages ==
    {Response(500, None), Response(200, None), Response(200, Some(Table(None)))}
    \cup {Response(200, Some(Table(Some(trs)))) : trs \in Bodies}

\* the schedule group of the spec's example: 3:45pm to 7:00pm
BaseSchedule == [start_after |-> s_3_45pm, end_before |-> s_7_00pm, exclude_days |-> <<>>]

BaseClassRules == [name_includes |-> <<s_Toddler>>, location_equals |-> s_SB]

Yamls ==
    { [class_rules |-> BaseClassRules, instructors |-> <<s_Bob, s_Jane>>,
       schedule |-> BaseSchedule],
      [class_rules |-> BaseClassRules, instructors |-> <<>>, schedule |-> BaseSchedule],
      [class_rules |-> BaseClassRules, schedule |-> BaseSchedule],
      [schedule |-> BaseSchedule],
      [instructors |-> <<s_Jane>>,
       schedule |-> [start_after |-> s_3_45pm, end_before |-> s_7_00pm]],
      [class_rules |-> [name_includes |-> <<>>], instructors |-> <<s_Jane>>,
       schedule |-> [start_after |-> s_3_45pm, end_before |-> s_7_00pm,
                     exclude_days |-> <<s_MWF>>]],
      [instructors |-> <<s_Jane>>,
       schedule |-> [start_after |-> s_3_45pm, end_before |-> s_7_00pm,
                     exclude_days |-> <<s_M, s_W>>]],
      [class_rules |-> BaseClassRules, instructors |-> <<s_Jane>>,
       schedule |-> [start_after |-> s_15_45, end_before |-> s_19_00,
                     time_format |-> s_H_M]],
      [class_rules |-> BaseClassRules, instructors |-> <<s_Jane>>,
       schedule |-> [start_after |-> s_15_45, end_before |-> s_7_00pm]],
      [class_rules |-> BaseClassRules, instructors |-> <<s_Jane>>,
       schedule |-> [start_after |-> s_3_45pm, end_before |-> s_19_00]],
      [class_rules |-> BaseClassRules, instructors |-> <<s_Jane>>,
       schedule |-> [end_before |-> s_7_00pm]],
      [class_rules |-> BaseClassRules, instructors |-> <<s_Jane>>,
       schedule |-> [start_after |-> s_3_45pm]],
      [class_rules |-> BaseClassRules, instructors |-> <<s_Jane>>],
      EmptyDict }

(***************************************************************************)
(* main(): one run of the pipeline                                         *)
(***************************************************************************)
VARIABLES
    yaml,      \* what yaml.safe_load returns for course_rules.yaml
    page,      \* the response the server has for the request of get_page
    pc,        \* where main is: "from_yaml", "get_page", "parse", "loop",
               \* "done" (returned) or "raised" (ended by an exception)
    cfg,       \* main's cfg: None until loaded
    html,      \* the text get_page returned: None until fetched
    rows,      \* parse's rows, once found
    i,         \* the row the generator of parse yields next
    yielded,   \* the Courses the generator has yielded so far
    stdout,    \* the objects printed so far
    error      \* the exception that ended the run, "" if none

vars == <<yaml, page, pc, cfg, html, rows, i, yielded, stdout, error>>

Init ==
    /\ yaml \in Yamls
    /\ page \in Pages
    /\ pc = "from_yaml"
    /\ cfg = None
    /\ html = None
    /\ rows = <<>>
    /\ i = 1
    /\ yielded = <<>>
    /\ stdout = <<>>
    /\ error = ""

\* response.raise_for_status()
raise_for_status(response) ==
    IF response.status >= 400 THEN Raise("HTTPError") ELSE Return(None)

\* parse, up to its loop: the rows of the table's body with the opening-row
\* class; a table or a body that is not there is None, and the call of
\* .find or .find_all on it an AttributeError
find_rows(document) ==
    IF document.table = None THEN Raise("AttributeError")
    ELSE IF document.table[1].tbody = None THEN Raise("AttributeError")
    ELSE Return(SelectSeq(document.table[1].tbody[1],
                          LAMBDA tr : tr.class = OpeningRowClass))

\* loop_body with the newest object put first
loop_body_newest_first(out, course, config) ==
    IF ~relevant(course, config) THEN out
    ELSE <<course_dict(course)>> \o out

\* the body of main's loop for one course: what stdout holds after it
loop_body(out, course, config) ==
    IF ~relevant(course, config) THEN out
    ELSE Append(out, course_dict(course))

\* cfg = Config.from_yaml("course_rules.yaml")
LoadConfig ==
    /\ pc = "from_yaml"
    /\ LET loaded == from_yaml(yaml)
       IN  IF loaded.raised
           THEN /\ pc' = "raised"
                /\ error' = loaded.error
                /\ cfg' = cfg
           ELSE /\ pc' = "get_page"
                /\ cfg' = Some(loaded.value)
                /\ error' = error
    /\ UNCHANGED <<yaml, page, html, rows, i, yielded, stdout>>

\* get_page()
GetPage ==
    /\ pc = "get_page"
    /\ IF raise_for_status(page).raised
       THEN /\ pc' = "raised"
            /\ error' = raise_for_status(page).error
            /\ html' = html
       ELSE /\ pc' = "parse"
            /\ html' = Some(page.text)
            /\ error' = error
    /\ UNCHANGED <<yaml, page, cfg, rows, i, yielded, stdout>>

\* the generator of parse(html), from its start to its loop
ParseStart ==
    /\ pc = "parse"
    /\ LET found == find_rows(html[1])
       IN  IF found.raised
           THEN /\ pc' = "raised"
                /\ error' = found.error
                /\ rows' = rows
           ELSE /\ pc' = "loop"
                /\ rows' = found.value
                /\ error' = error
    /\ UNCHANGED <<yaml, page, cfg, html, i, yielded, stdout>>

\* NextCourse with a row that cannot be extracted skipped, not fatal
NextCourse_skipping ==
    /\ pc = "loop"
    /\ i <= Len(rows)
    /\ LET course == extract_course_data(rows[i])
       IN  IF course.raised
           THEN /\ i' = i + 1
                /\ UNCHANGED <<pc, error, yielded, stdout>>
           ELSE /\ i' = i + 1
                /\ yielded' = Append(yielded, course.value)
                /\ stdout' = loop_body(stdout, course.value, cfg[1])
                /\ UNCHANGED <<pc, error>>
    /\ UNCHANGED <<yaml, page, cfg, html, rows>>

\* one turn of main's loop: the generator extracts and yields the next
\* course, and main prints it if it is relevant
NextCourse ==
    /\ pc = "loop"
    /\ i <= Len(rows)
    /\ LET course == extract_course_data(rows[i])
       IN  IF course.raised
           THEN /\ pc' = "raised"
                /\ error' = course.error
                /\ UNCHANGED <<i, yielded, stdout>>
           ELSE /\ i' = i + 1
                /\ yielded' = Append(yielded, course.value)
                /\ stdout' = loop_body(stdout, course.value, cfg[1])
                /\ UNCHANGED <<pc, error>>
    /\ UNCHANGED <<yaml, page, cfg, html, rows>>

\* the generator is exhausted: main returns
Finish ==
    /\ pc = "loop"
    /\ i > Len(rows)
    /\ pc' = "done"
    /\ UNCHANGED <<yaml, page, cfg, html, rows, i, yielded, stdout, error>>

Next == LoadConfig \/ GetPage \/ ParseStart \/ NextCourse \/ Finish

Spec == Init /\ [][Next]_vars

(***************************************************************************)
(* Vocabulary of the properties                                            *)
(***************************************************************************)
Cfg == cfg[1]

\* the twelve string fields of a Course
TwelveKeys ==
    {"class_name", "location", "instructor", "session", "gender", "age",
     "open", "cat2", "cat3", "days", "times", "fee"}

\* a time of day, or a datetime's time of day, in minutes after midnight
Minutes(t) == t.hour * 60 + t.minute

\* the object with a course's twelve string fields
ObjectOf(course) == [key \in TwelveKeys |-> course[key]]

\* an object with this course's twelve fields has been printed
Printed(course) ==
    \E j \in 1..Len(stdout) :
        /\ DOMAIN stdout[j] = TwelveKeys
        /\ \A key \in TwelveKeys : stdout[j][key] = course[key]

\* the opening rows of the document the server has, in document order
DocRows ==
    IF page.text.table = None THEN <<>>
    ELSE IF page.text.table[1].tbody = None THEN <<>>
    ELSE SelectSeq(page.text.table[1].tbody[1],
                   LAMBDA tr : tr.class = OpeningRowClass)

\* the fetch fails, or the table or its body is not in the document
FetchOrStructureFails ==
    \/ page.status >= 400
    \/ page.text.table = None
    \/ page.text.table[1].tbody = None

\* row k of the document cannot be extracted
Malformed(k) == extract_course_data(DocRows[k]).raised

\* the objects of the relevant courses among the first n rows of the
\* document, in document order
RECURSIVE ExpectedOutput(_)
ExpectedOutput(n) ==
    IF n = 0 THEN <<>>
    ELSE LET course == extract_course_data(DocRows[n]).value
         IN  IF relevant(course, Cfg)
             THEN Append(ExpectedOutput(n - 1), ObjectOf(course))
             ELSE ExpectedOutput(n - 1)

\* the loop has taken n rows of the document so far
Taken == i - 1

(***************************************************************************)
(* C2: the output is the in-order subsequence of the relevant rows.  At    *)
(* every point of the loop stdout holds exactly the objects of the         *)
(* relevant courses among the rows taken so far, one each, in document     *)
(* order; and a run that returns has taken every row of the document.      *)
(***************************************************************************)
C2_OutputIsRelevantRowsInOrder ==
    pc \in {"loop", "done"} =>
        /\ Taken <= Len(DocRows)
        /\ \A k \in 1..Taken : ~Malformed(k)
        /\ stdout = ExpectedOutput(Taken)
        /\ pc = "done" => Taken = Len(DocRows)

\* a run has returned after printing two different objects and passing
\* over an irrelevant row between them
C2_Witness ==
    /\ pc = "done"
    /\ DocRows = <<RowA, RowB, RowEdge>>
    /\ Len(stdout) = 2
    /\ stdout[1] /= stdout[2]
    /\ stdout[1].times = s_4_00pm_4_45pm

(***************************************************************************)
(* C3: fail-fast.  A failed fetch or a missing table or body leaves no     *)
(* output and no course; when row k of the document is the first that      *)
(* cannot be extracted, the loop never gets past row k, never returns, and *)
(* prints only objects of rows before k; and once the run has ended with   *)
(* an exception nothing is printed, extracted or resumed any more.         *)
(***************************************************************************)
\* C3, in every state: what has been taken and printed stops before the
\* first failure
C3_NothingPastTheFailure ==
    /\ FetchOrStructureFails =>
           /\ stdout = <<>> /\ yielded = <<>> /\ Taken = 0
           /\ pc \notin {"loop", "done"}
    /\ \A k \in 1..Len(DocRows) :
           (cfg /= None /\ Malformed(k) /\ \A m \in 1..(k - 1) : ~Malformed(m)) =>
               /\ Taken < k
               /\ Len(yielded) < k
               /\ pc /= "done"
               /\ stdout = ExpectedOutput(Taken)
               /\ pc \notin {"from_yaml", "get_page", "parse", "loop"} =>
                      (pc = "raised" /\ error /= "" /\ Taken = k - 1)

\* C3, in every step: a run ended by an exception stays ended
C3_StoppedForGood ==
    pc = "raised" =>
        /\ pc' = "raised"
        /\ stdout' = stdout
        /\ yielded' = yielded
        /\ i' = i

\* C3: nothing is taken or printed at or past the first failure, in any
\* state, and nothing changes once an exception has ended the run
C3_FailFast == []C3_NothingPastTheFailure /\ [][C3_StoppedForGood]_vars

\* a run ended by the second row's Times after printing the first row,
\* with a relevant row still behind the failing one
C3_Witness ==
    /\ pc = "raised"
    /\ error = "ValueError"
    /\ DocRows = <<RowA, RowNoSeparator, RowA>>
    /\ Len(stdout) = 1
    /\ Len(yielded) = 1

(***************************************************************************)
(* C1: the instructor criterion is true when cfg.instructors is empty or   *)
(* some configured string is in the lower-cased instructor; so with an     *)
(* empty instructors list every course that meets the name, location,      *)
(* time-window and day criteria is relevant, and printed.                  *)
(***************************************************************************)
C1_EmptyInstructorsMatchEveryone ==
    cfg /= None =>
        \A k \in 1..Len(yielded) :
            LET c == yielded[k]
            IN  /\ good_instructor(c, Cfg) <=>
                       \/ Cfg.instructors = <<>>
                       \/ \E j \in 1..Len(Cfg.instructors) :
                              contains(lower(c.instructor), Cfg.instructors[j])
                /\ ( /\ Cfg.instructors = <<>>
                     /\ correct_class(c, Cfg)
                     /\ good_location(c, Cfg)
                     /\ good_time(c, Cfg)
                     /\ good_day(c, Cfg) ) => Printed(c)

(***************************************************************************)
(* C4: the time-window criterion is start >= start_after and               *)
(* end <= end_before, both inclusive, and nothing else: a course outside   *)
(* the window is never printed, a course inside it (its start after its    *)
(* end or not) is printed when the other four criteria hold.               *)
(***************************************************************************)
\* the window as C4 states it, in minutes after midnight
InWindow(c) ==
    /\ Minutes(c.start_time) >= Minutes(Cfg.start_after)
    /\ Minutes(c.end_time) <= Minutes(Cfg.end_before)

C4_TimeWindowInclusive ==
    cfg /= None =>
        \A k \in 1..Len(yielded) :
            LET c == yielded[k]
            IN  /\ good_time(c, Cfg) <=> InWindow(c)
                /\ ~InWindow(c) => (~relevant(c, Cfg) /\ ~Printed(c))
                /\ ( /\ InWindow(c)
                     /\ correct_class(c, Cfg)
                     /\ good_location(c, Cfg)
                     /\ good_day(c, Cfg)
                     /\ good_instructor(c, Cfg) ) => Printed(c)

\* a course from 3:45pm to 7:00pm has been printed under a window of
\* 15:45 to 19:00
C4_Witness ==
    /\ cfg /= None
    /\ Cfg.start_after = [hour |-> 15, minute |-> 45]
    /\ Cfg.end_before = [hour |-> 19, minute |-> 0]
    /\ \E k \in 1..Len(yielded) :
           /\ yielded[k].times = s_3_45pm_7_00pm
           /\ Minutes(yielded[k].start_time) = 15 * 60 + 45
           /\ Minutes(yielded[k].end_time) = 19 * 60
           /\ Printed(yielded[k])

(***************************************************************************)
(* C5: a course is rejected by the day criterion exactly when its days     *)
(* string equals an element of cfg.exclude_days: days "MWF" is rejected    *)
(* under ["MWF"], not under ["M", "W"], and nothing is under [].           *)
(***************************************************************************)
\* the days string of c is, whole, an element of exclude_days
Excluded(c) == \E j \in 1..Len(Cfg.exclude_days) : Cfg.exclude_days[j] = c.days

C5_DayExclusionIsWholeString ==
    cfg /= None =>
        \A k \in 1..Len(yielded) :
            LET c == yielded[k]
            IN  /\ good_day(c, Cfg) <=> ~Excluded(c)
                /\ Excluded(c) => (~relevant(c, Cfg) /\ ~Printed(c))
                /\ ( /\ ~Excluded(c)
                     /\ correct_class(c, Cfg)
                     /\ good_location(c, Cfg)
                     /\ good_time(c, Cfg)
                     /\ good_instructor(c, Cfg) ) => Printed(c)
                /\ (c.days = s_MWF /\ Cfg.exclude_days = <<s_MWF>>) => ~Printed(c)
                /\ Cfg.exclude_days = <<>> => good_day(c, Cfg)

\* a course on "MWF" has been printed although "M" and "W" are excluded
C5_Witness ==
    /\ cfg /= None
    /\ Cfg.exclude_days = <<s_M, s_W>>
    /\ \E k \in 1..Len(yielded) : yielded[k].days = s_MWF /\ Printed(yielded[k])

(***************************************************************************)
(* C6: a configuration without the class_rules and instructors groups,     *)
(* with valid start_after and end_before, loads as name_includes = [],     *)
(* instructors = [] and location_equals = None, and under it the name and  *)
(* the location criterion hold of every course, whatever its name and      *)
(* location.                                                               *)
(***************************************************************************)
\* the schedule group as written in the file
ScheduleGroup == IF "schedule" \in DOMAIN yaml THEN yaml["schedule"] ELSE EmptyDict

\* the time format the file configures
ConfiguredFormat ==
    IF "time_format" \in DOMAIN ScheduleGroup
    THEN ScheduleGroup["time_format"]
    ELSE DefaultTimeFormat

\* a mandatory bound is absent from the file, or does not parse
BoundMissingOrUnparseable(key) ==
    \/ key \notin DOMAIN ScheduleGroup
    \/ strptime(ScheduleGroup[key], ConfiguredFormat).raised

BadBounds ==
    \/ BoundMissingOrUnparseable("start_after")
    \/ BoundMissingOrUnparseable("end_before")

\* the courses of all the rows that can be extracted
AllCourses ==
    {extract_course_data(r).value : r \in {x \in Rows : ~extract_course_data(x).raised}}

C6_OmittedGroupsAreNoConstraint ==
    ( /\ "class_rules" \notin DOMAIN yaml
      /\ "instructors" \notin DOMAIN yaml
      /\ ~BadBounds
      /\ pc /= "from_yaml" ) =>
        /\ cfg /= None
        /\ Cfg.name_includes = <<>>
        /\ Cfg.instructors = <<>>
        /\ Cfg.location_equals = None
        /\ \A c \in AllCourses : correct_class(c, Cfg) /\ good_location(c, Cfg)
        /\ \A k \in 1..Len(yielded) :
               correct_class(yielded[k], Cfg) /\ good_location(yielded[k], Cfg)

\* a course at "NB" has gone through the loop under a configuration that
\* has only the schedule group
C6_Witness ==
    /\ DOMAIN yaml = {"schedule"}
    /\ cfg /= None
    /\ \E k \in 1..Len(yielded) : yielded[k].location = s_NB

(***************************************************************************)
(* C7: when start_after or end_before is absent (the whole schedule group  *)
(* absent included) or does not parse, loading raises, no Config exists,   *)
(* nothing is fetched and nothing is printed; in every other case loading  *)
(* succeeds and each absent group or key is the empty list or None.        *)
(***************************************************************************)
C7_OnlyTheBoundsAreMandatory ==
    /\ BadBounds =>
           /\ pc \in {"from_yaml", "raised"}
           /\ pc = "raised" => error \in {"KeyError", "ValueError"}
           /\ cfg = None /\ html = None /\ rows = <<>>
           /\ yielded = <<>> /\ stdout = <<>>
    /\ (~BadBounds /\ pc /= "from_yaml") =>
           /\ cfg /= None
           /\ error \notin {"KeyError"}
           /\ ("class_rules" \notin DOMAIN yaml
               \/ "name_includes" \notin DOMAIN yaml["class_rules"]) =>
                   Cfg.name_includes = <<>>
           /\ ("class_rules" \notin DOMAIN yaml
               \/ "location_equals" \notin DOMAIN yaml["class_rules"]) =>
                   Cfg.location_equals = None
           /\ "instructors" \notin DOMAIN yaml => Cfg.instructors = <<>>
           /\ "exclude_days" \notin DOMAIN ScheduleGroup => Cfg.exclude_days = <<>>
           /\ "time_format" \notin DOMAIN ScheduleGroup =>
                  /\ Cfg.start_after = [hour |-> 15, minute |-> 45]
                  /\ Cfg.end_before = [hour |-> 19, minute |-> 0]

\* a run ended by KeyError on a file that has no schedule group but has
\* the other two
C7_Witness ==
    /\ pc = "raised"
    /\ error = "KeyError"
    /\ DOMAIN yaml = {"class_rules", "instructors"}
    /\ DocRows /= <<>>
    /\ html = None

(***************************************************************************)
(* C8: every printed object has exactly the twelve string keys of Course,  *)
(* each with the value of that field of a course the generator yielded,    *)
(* and has neither start_time nor end_time.                                *)
(***************************************************************************)
\* C8, in every state: the keys and values of the printed objects
C8_TwelveKeysUnchanged ==
    \A j \in 1..Len(stdout) :
        /\ DOMAIN stdout[j] = TwelveKeys
        /\ Cardinality(DOMAIN stdout[j]) = 12
        /\ "start_time" \notin DOMAIN stdout[j]
        /\ "end_time" \notin DOMAIN stdout[j]
        /\ \E k \in 1..Len(yielded) :
               \A key \in TwelveKeys : stdout[j][key] = yielded[k][key]

\* C8, in every step: a print adds one object, that of the course just
\* yielded
C8_LastPrintedIsTheCourseJustYielded ==
    stdout' /= stdout =>
        /\ Len(stdout') = Len(stdout) + 1
        /\ Len(yielded') = Len(yielded) + 1
        /\ \A key \in TwelveKeys :
               stdout'[Len(stdout')][key] = yielded'[Len(yielded')][key]

\* C8: every printed object has the twelve keys and values of a yielded
\* course, and each print adds the object of the course just yielded
C8_PrintedObject == []C8_TwelveKeysUnchanged /\ [][C8_LastPrintedIsTheCourseJustYielded]_vars

\* the object of the spec's example row has been printed
C8_Witness ==
    /\ Len(stdout) >= 1
    /\ stdout[1].class_name = s_Toddler_Dance
    /\ stdout[1].location = s_SB
    /\ stdout[1].times = s_4_00pm_4_45pm
    /\ yielded[1].start_time.hour = 16

(***************************************************************************)
(* C9: the class name of a header.  The rows the generator has come to     *)
(* are rows[1..i-1], all yielded, and rows[i] when an exception ended the  *)
(* loop there.                                                             *)
(***************************************************************************)
\* the generator has come to rows[k]
Reached(k) == k < i \/ (k = i /\ k <= Len(rows) /\ pc = "raised")

\* the trimmed, non-empty text segments of a row's header
Segments(row) == stripped_strings(row.th[1])

\* the row has a header, its eleven cells and Times that parse
RestOfRowIsFine(row) ==
    /\ row.th /= None
    /\ AttributeSet \subseteq DOMAIN row.td
    /\ ~parse_time_range(get_text(row.td["Times"])).raised

\* C9 as claimed: with exactly two segments the class name is the second,
\* with any other number of segments it is the first
C9_AsClaimed ==
    \A k \in 1..Len(rows) :
        (Reached(k) /\ RestOfRowIsFine(rows[k])) =>
            LET got == extract_course_data(rows[k])
            IN  /\ ~got.raised
                /\ got.value.class_name =
                       IF Len(Segments(rows[k])) = 2
                       THEN Segments(rows[k])[2]
                       ELSE Segments(rows[k])[1]

\* C9 as amended: with exactly two segments the class name is the second;
\* with one segment or with three or more it is the first; with no segment
\* at all there is no class name: extraction raises IndexError and yields
\* no Course
C9_ClassNameSelection ==
    \A k \in 1..Len(rows) :
        (Reached(k) /\ RestOfRowIsFine(rows[k])) =>
            LET got == extract_course_data(rows[k])
                n   == Len(Segments(rows[k]))
            IN  IF n = 0
                THEN /\ got.raised /\ got.error = "IndexError"
                     /\ k = i /\ pc = "raised" /\ error = "IndexError"
                     /\ Len(yielded) = k - 1
                ELSE /\ ~got.raised
                     /\ k < i
                     /\ yielded[k].class_name =
                            IF n = 2 THEN Segments(rows[k])[2] ELSE Segments(rows[k])[1]
                     /\ (rows[k].th = Header2 => yielded[k].class_name = s_Toddler_Dance)
                     /\ (rows[k].th = Header3 => yielded[k].class_name = s_NEW)

\* a two-segment header has given its second segment, and then a header
\* without any segment has ended the run
C9_Witness ==
    /\ pc = "raised"
    /\ error = "IndexError"
    /\ rows = <<RowA, RowEmptyHeader>>
    /\ Len(yielded) = 1
    /\ yielded[1].class_name = s_Toddler_Dance

(***************************************************************************)
(* C10: a row without one of the eleven named cells, whichever, gives no   *)
(* Course: extraction raises there and the run ends; every Course yielded  *)
(* comes from a row that has all eleven.                                   *)
(***************************************************************************)
\* the named cells a row does not have
MissingCells(row) == {a \in AttributeSet : a \notin DOMAIN row.td}

C10_MissingCellIsFatal ==
    /\ \A k \in 1..Len(rows) :
           (Reached(k) /\ MissingCells(rows[k]) /= {}) =>
               /\ extract_course_data(rows[k]).raised
               /\ k = i /\ pc = "raised"
               /\ error \in {"AssertionError", "IndexError"}
               /\ (rows[k].th /= None /\ Segments(rows[k]) /= <<>>) =>
                      error = "AssertionError"
               /\ Len(yielded) = k - 1
    /\ \A k \in 1..Len(yielded) :
           /\ MissingCells(rows[k]) = {}
           /\ \A key \in TwelveKeys : key \in DOMAIN yielded[k]

\* the run has ended on a second row that has a header and every cell
\* but Fee
C10_Witness ==
    /\ pc = "raised"
    /\ error = "AssertionError"
    /\ i = 2
    /\ Len(yielded) = 1
    /\ rows[2].th = Header2
    /\ MissingCells(rows[2]) = {"Fee"}

====
